---- MODULE Spec2Model ----
(***************************************************************************)
(* The laptop-preference store of the multi-agent laptop recommender:      *)
(* the process-wide record _laptop_preferences of agents/agent.py with its *)
(* tool update_laptop_preferences_and_search_text, and the stateless tool  *)
(* modify_laptop_requirements of agents/search_agents.py, each with its    *)
(* own copy of _is_unspecified and _build_search_text_from_preferences.    *)
(*                                                                         *)
(* Representation of Python values.  A str is a sequence of symbols.  Text *)
(* that the code inspects (user-supplied values, the sentinel) has one     *)
(* character per symbol; a string literal that the code only copies (a     *)
(* fragment template, a dictionary key) is a single symbol.  Every Python  *)
(* value is a record [t, s, l, d]: t is the type tag, s the symbols of a   *)
(* str (the digits of an int), l the items of a list, d the items of a     *)
(* dict in insertion order, each item a record [key, val].                 *)
(***************************************************************************)
EXTENDS Integers, Sequences, FiniteSets, TLC

VARIABLES
    _laptop_preferences,   \* agent.py: the process-wide preference dict
    known_json,            \* the preferences_json the agents hold in the conversation
    call,                  \* the call being answered: its name and arguments
    before,                \* _laptop_preferences as it was when that call was made
    ret,                   \* what that call returned (or raised)
    frames                 \* the tool calls that run at the same time, one per conversation

vars == <<_laptop_preferences, known_json, call, before, ret, frames>>

----------------------------------------------------------------------------
(* Python values *)

PyNone == [t |-> "none", s |-> <<>>, l |-> <<>>, d |-> <<>>]
PyStr(x) == [t |-> "str", s |-> x, l |-> <<>>, d |-> <<>>]
PyInt(x) == [t |-> "int", s |-> x, l |-> <<>>, d |-> <<>>]
PyList(x) == [t |-> "list", s |-> <<>>, l |-> x, d |-> <<>>]
PyDict(x) == [t |-> "dict", s |-> <<>>, l |-> <<>>, d |-> x]

\* bool(value): the truth value Python gives a value in a condition
Truthy(value) ==
    CASE value.t = "none" -> FALSE
      [] value.t = "str" -> value.s # <<>>
      [] value.t = "int" -> value.s # <<"0">>
      [] value.t = "list" -> value.l # <<>>
      [] value.t = "dict" -> value.d # <<>>

\* the keys of a dict's items, in insertion order
Keys(items) == [i \in 1..Len(items) |-> items[i].key]

HasKey(items, key) == \E i \in 1..Len(items) : items[i].key = key

\* prefs.get(key): the value under key, None when the key is absent
DictGet(items, key) ==
    IF HasKey(items, key)
    THEN items[CHOOSE i \in 1..Len(items) : items[i].key = key].val
    ELSE PyNone

\* prefs[key] = val: an existing key keeps its position, a new key is appended
DictSet(items, key, val) ==
    IF HasKey(items, key)
    THEN [i \in 1..Len(items) |->
            IF items[i].key = key THEN [key |-> key, val |-> val] ELSE items[i]]
    ELSE Append(items, [key |-> key, val |-> val])

\* prefs.setdefault(key, None)
DictSetDefault(items, key) ==
    IF HasKey(items, key) THEN items ELSE Append(items, [key |-> key, val |-> PyNone])

----------------------------------------------------------------------------
(* str methods *)

Whitespace == {" ", "\t", "\n"}

UpperToLower ==
    [A |-> "a", B |-> "b", C |-> "c", D |-> "d", E |-> "e", F |-> "f", G |-> "g",
     H |-> "h", I |-> "i", J |-> "j", K |-> "k", L |-> "l", M |-> "m", N |-> "n",
     O |-> "o", P |-> "p", Q |-> "q", R |-> "r", S |-> "s", T |-> "t", U |-> "u",
     V |-> "v", W |-> "w", X |-> "x", Y |-> "y", Z |-> "z"]

Uppercase == DOMAIN UpperToLower

\* str.lower()
Lower(x) ==
    [i \in 1..Len(x) |-> IF x[i] \in Uppercase THEN UpperToLower[x[i]] ELSE x[i]]

RECURSIVE FirstSolid(_, _), LastSolid(_, _)
\* the index of the first character at or after i that is not whitespace
FirstSolid(x, i) ==
    IF i <= Len(x) /\ x[i] \in Whitespace THEN FirstSolid(x, i + 1) ELSE i

\* the index of the last character at or before i that is not whitespace
LastSolid(x, i) ==
    IF i >= 1 /\ x[i] \in Whitespace THEN LastSolid(x, i - 1) ELSE i

\* str.strip(): without the leading and trailing whitespace
Strip(x) == SubSeq(x, FirstSolid(x, 1), LastSolid(x, Len(x)))

RECURSIVE Join(_, _)
\* sep.join(parts)
Join(sep, parts) ==
    IF parts = <<>> THEN <<>>
    ELSE IF Len(parts) = 1 THEN parts[1]
    ELSE parts[1] \o sep \o Join(sep, Tail(parts))

\* the literal "unspecified"
UNSPECIFIED == <<"u", "n", "s", "p", "e", "c", "i", "f", "i", "e", "d">>

----------------------------------------------------------------------------
(* The json module.  A JSON text is a sequence of tokens [k, s]: k is the  *)
(* kind ("{" "}" "[" "]" "," ":" "null" "str" "num" "ws" "bad") and s the  *)
(* symbols of a string literal, the digits of a number, the characters of  *)
(* a run of whitespace, or the characters that begin no JSON token.        *)

Tok(kind) == [k |-> kind, s |-> <<>>]
StrTok(x) == [k |-> "str", s |-> x]
NumTok(x) == [k |-> "num", s |-> x]
BadTok(x) == [k |-> "bad", s |-> x]
WsTok(x) == [k |-> "ws", s |-> x]

\* the newline and indentation json.dumps(indent=2) puts before an item
NewlineIndent(level) == WsTok(<<"\n">> \o [i \in 1..(2 * level) |-> " "])

RECURSIVE DumpValue(_, _), DumpItems(_, _, _), DumpMembers(_, _, _)

\* the text of value at the given nesting level, under indent=2
DumpValue(value, level) ==
    CASE value.t = "none" -> <<Tok("null")>>
      [] value.t = "str" -> <<StrTok(value.s)>>
      [] value.t = "int" -> <<NumTok(value.s)>>
      [] value.t = "list" ->
            IF value.l = <<>> THEN <<Tok("["), Tok("]")>>
            ELSE <<Tok("[")>> \o DumpItems(value.l, 1, level + 1)
                 \o <<NewlineIndent(level), Tok("]")>>
      [] value.t = "dict" ->
            IF value.d = <<>> THEN <<Tok("{"), Tok("}")>>
            ELSE <<Tok("{")>> \o DumpMembers(value.d, 1, level + 1)
                 \o <<NewlineIndent(level), Tok("}")>>

DumpItems(l, i, level) ==
    IF i > Len(l) THEN <<>>
    ELSE <<NewlineIndent(level)>> \o DumpValue(l[i], level)
         \o (IF i < Len(l) THEN <<Tok(",")>> ELSE <<>>)
         \o DumpItems(l, i + 1, level)

DumpMembers(d, i, level) ==
    IF i > Len(d) THEN <<>>
    ELSE <<NewlineIndent(level), StrTok(d[i].key), Tok(":"), WsTok(<<" ">>)>>
         \o DumpValue(d[i].val, level)
         \o (IF i < Len(d) THEN <<Tok(",")>> ELSE <<>>)
         \o DumpMembers(d, i + 1, level)

\* json.dumps(prefs, indent=2)
json_dumps(prefs) == DumpValue(PyDict(prefs), 0)

RECURSIVE SkipWs(_, _)
\* the index of the first token at or after i that is not whitespace
SkipWs(toks, i) ==
    IF i <= Len(toks) /\ toks[i].k = "ws" THEN SkipWs(toks, i + 1) ELSE i

ParseFail == [ok |-> FALSE, val |-> PyNone, next |-> 0]
ParseOk(value, next) == [ok |-> TRUE, val |-> value, next |-> next]

RECURSIVE ParseValue(_, _), ParseItems(_, _, _), ParseMembers(_, _, _)

\* the JSON value that starts at token i0, and the index after it
ParseValue(toks, i0) ==
    LET i == SkipWs(toks, i0)
    IN  IF i > Len(toks) THEN ParseFail
        ELSE CASE toks[i].k = "null" -> ParseOk(PyNone, i + 1)
               [] toks[i].k = "str" -> ParseOk(PyStr(toks[i].s), i + 1)
               [] toks[i].k = "num" -> ParseOk(PyInt(toks[i].s), i + 1)
               [] toks[i].k = "[" ->
                    LET j == SkipWs(toks, i + 1)
                    IN  IF j <= Len(toks) /\ toks[j].k = "]"
                        THEN ParseOk(PyList(<<>>), j + 1)
                        ELSE ParseItems(toks, j, <<>>)
               [] toks[i].k = "{" ->
                    LET j == SkipWs(toks, i + 1)
                    IN  IF j <= Len(toks) /\ toks[j].k = "}"
                        THEN ParseOk(PyDict(<<>>), j + 1)
                        ELSE ParseMembers(toks, j, <<>>)
               [] OTHER -> ParseFail

\* the rest of an array whose items so far are acc
ParseItems(toks, i, acc) ==
    LET r == ParseValue(toks, i)
        j == SkipWs(toks, r.next)
    IN  IF ~r.ok \/ j > Len(toks) THEN ParseFail
        ELSE CASE toks[j].k = "," -> ParseItems(toks, j + 1, Append(acc, r.val))
               [] toks[j].k = "]" -> ParseOk(PyList(Append(acc, r.val)), j + 1)
               [] OTHER -> ParseFail

\* the rest of an object whose members so far are acc; a repeated key keeps
\* its first position and takes the last value
ParseMembers(toks, i, acc) ==
    LET ik == SkipWs(toks, i)
        ic == SkipWs(toks, ik + 1)
    IN  IF ic > Len(toks) \/ toks[ik].k # "str" \/ toks[ic].k # ":" THEN ParseFail
        ELSE LET r == ParseValue(toks, ic + 1)
                 j == SkipWs(toks, r.next)
             IN  IF ~r.ok \/ j > Len(toks) THEN ParseFail
                 ELSE CASE toks[j].k = "," ->
                            ParseMembers(toks, j + 1, DictSet(acc, toks[ik].s, r.val))
                        [] toks[j].k = "}" ->
                            ParseOk(PyDict(DictSet(acc, toks[ik].s, r.val)), j + 1)
                        [] OTHER -> ParseFail

\* json.loads(text): ok is FALSE where json.loads raises JSONDecodeError
json_loads(text) ==
    LET r == ParseValue(text, 1)
    IN  IF r.ok /\ SkipWs(text, r.next) > Len(text) THEN r ELSE ParseFail

----------------------------------------------------------------------------
(* agents/agent.py: _is_unspecified and _build_search_text_from_preferences *)

\* a slip in _is_unspecified: the text is compared without lower()
agent_is_unspecified_case_sensitive(value) ==
    CASE value.t = "none" -> FALSE
      [] value.t = "str" -> Strip(value.s) = UNSPECIFIED
      [] value.t = "list" ->
            /\ Len(value.l) > 0
            /\ \A i \in 1..Len(value.l) :
                  /\ value.l[i].t = "str"
                  /\ Strip(value.l[i].s) = UNSPECIFIED
      [] OTHER -> FALSE

\* _is_unspecified(value) of agents/agent.py
agent_is_unspecified(value) ==
    CASE value.t = "none" -> FALSE
      [] value.t = "str" -> Lower(Strip(value.s)) = UNSPECIFIED
      [] value.t = "list" ->
            /\ Len(value.l) > 0
            /\ \A i \in 1..Len(value.l) :
                  /\ value.l[i].t = "str"
                  /\ Lower(Strip(value.l[i].s)) = UNSPECIFIED
      [] OTHER -> FALSE

\* a slip in the purpose block: "and p.strip()" left out
agent_purpose_parts_keeps_blank(purpose_value) ==
    IF Truthy(purpose_value) /\ ~agent_is_unspecified(purpose_value)
    THEN IF purpose_value.t = "list"
         THEN LET keep(p) == /\ p.t = "str"
                             /\ Lower(Strip(p.s)) # UNSPECIFIED
                  kept == SelectSeq(purpose_value.l, keep)
              IN  [i \in 1..Len(kept) |-> Strip(kept[i].s) \o <<" laptop">>]
         ELSE IF purpose_value.t = "str"
              THEN IF Lower(Strip(purpose_value.s)) # UNSPECIFIED
                   THEN << Strip(purpose_value.s) \o <<" laptop">> >>
                   ELSE <<>>
              ELSE <<>>
    ELSE <<>>

\* the purpose block of _build_search_text_from_preferences of agents/agent.py
agent_purpose_parts(purpose_value) ==
    IF Truthy(purpose_value) /\ ~agent_is_unspecified(purpose_value)
    THEN IF purpose_value.t = "list"
         THEN LET keep(p) == /\ p.t = "str"
                             /\ Strip(p.s) # <<>>
                             /\ Lower(Strip(p.s)) # UNSPECIFIED
                  kept == SelectSeq(purpose_value.l, keep)
              IN  [i \in 1..Len(kept) |-> Strip(kept[i].s) \o <<" laptop">>]
         ELSE IF purpose_value.t = "str"
              THEN IF Lower(Strip(purpose_value.s)) # UNSPECIFIED
                   THEN << Strip(purpose_value.s) \o <<" laptop">> >>
                   ELSE <<>>
              ELSE <<>>
    ELSE <<>>

\* a slip in the test: "and not _is_unspecified(value)" left out
agent_is_concrete_keeps_sentinel(value) ==
    /\ value.t = "str"
    /\ Strip(value.s) # <<>>

\* the test guarding each single-valued field's fragment in agents/agent.py
agent_is_concrete(value) ==
    /\ value.t = "str"
    /\ Strip(value.s) # <<>>
    /\ ~agent_is_unspecified(value)

\* _build_search_text_from_preferences(prefs) of agents/agent.py
agent_build_search_text_from_preferences(prefs) ==
    LET processor_value == DictGet(prefs, <<"processor">>)
        ram_value == DictGet(prefs, <<"ram">>)
        storage_value == DictGet(prefs, <<"storage">>)
        graphics_value == DictGet(prefs, <<"graphics">>)
        display_value == DictGet(prefs, <<"display">>)
        price_range_value == DictGet(prefs, <<"price_range">>)
        parts ==
            agent_purpose_parts(DictGet(prefs, <<"purpose">>))
            \o (IF agent_is_concrete(processor_value)
                THEN << <<"with ">> \o Strip(processor_value.s) \o <<" processor">> >>
                ELSE <<>>)
            \o (IF agent_is_concrete(ram_value)
                THEN << Strip(ram_value.s) \o <<" RAM">> >>
                ELSE <<>>)
            \o (IF agent_is_concrete(storage_value)
                THEN << Strip(storage_value.s) \o <<" storage">> >>
                ELSE <<>>)
            \o (IF agent_is_concrete(graphics_value)
                THEN << Strip(graphics_value.s) \o <<" graphics">> >>
                ELSE <<>>)
            \o (IF agent_is_concrete(display_value)
                THEN << Strip(display_value.s) \o <<" display">> >>
                ELSE <<>>)
            \o (IF agent_is_concrete(price_range_value)
                THEN << <<"within budget ">> \o Strip(price_range_value.s) >>
                ELSE <<>>)
    IN  IF parts = <<>>
        THEN <<"laptop recommendations">>
        ELSE Join(<<" ">>, parts) \o <<" best laptop recommendations">>

----------------------------------------------------------------------------
(* agents/agent.py: the process-wide record and its tool *)

\* the parameter names of both tools, in the order of the record's keys
Params == <<"purpose", "processor", "ram", "storage", "graphics", "display", "price_range">>

\* the initial value of _laptop_preferences
InitialPreferences == [i \in 1..Len(Params) |-> [key |-> <<Params[i]>>, val |-> PyNone]]

\* a slip in the assignments: the one for price_range left out
agent_apply_updates_drops_price_range(prefs, patch) ==
    LET p1 == IF patch.purpose # PyNone
              THEN DictSet(prefs, <<"purpose">>, patch.purpose) ELSE prefs
        p2 == IF patch.processor # PyNone
              THEN DictSet(p1, <<"processor">>, patch.processor) ELSE p1
        p3 == IF patch.ram # PyNone
              THEN DictSet(p2, <<"ram">>, patch.ram) ELSE p2
        p4 == IF patch.storage # PyNone
              THEN DictSet(p3, <<"storage">>, patch.storage) ELSE p3
        p5 == IF patch.graphics # PyNone
              THEN DictSet(p4, <<"graphics">>, patch.graphics) ELSE p4
    IN  IF patch.display # PyNone
        THEN DictSet(p5, <<"display">>, patch.display) ELSE p5

\* a slip in the assignments: every argument is stored, None included
agent_apply_updates_assigns_none(prefs, patch) ==
    DictSet(DictSet(DictSet(DictSet(DictSet(DictSet(DictSet(prefs,
        <<"purpose">>, patch.purpose), <<"processor">>, patch.processor),
        <<"ram">>, patch.ram), <<"storage">>, patch.storage),
        <<"graphics">>, patch.graphics), <<"display">>, patch.display),
        <<"price_range">>, patch.price_range)

\* a slip in the assignments: a new purpose list is added to the stored one
agent_apply_updates_extends_purpose(prefs, patch) ==
    LET old == DictGet(prefs, <<"purpose">>)
        p1 == IF patch.purpose # PyNone
              THEN DictSet(prefs, <<"purpose">>,
                           IF old.t = "list" THEN PyList(old.l \o patch.purpose.l)
                           ELSE patch.purpose)
              ELSE prefs
        p2 == IF patch.processor # PyNone
              THEN DictSet(p1, <<"processor">>, patch.processor) ELSE p1
        p3 == IF patch.ram # PyNone
              THEN DictSet(p2, <<"ram">>, patch.ram) ELSE p2
        p4 == IF patch.storage # PyNone
              THEN DictSet(p3, <<"storage">>, patch.storage) ELSE p3
        p5 == IF patch.graphics # PyNone
              THEN DictSet(p4, <<"graphics">>, patch.graphics) ELSE p4
        p6 == IF patch.display # PyNone
              THEN DictSet(p5, <<"display">>, patch.display) ELSE p5
    IN  IF patch.price_range # PyNone
        THEN DictSet(p6, <<"price_range">>, patch.price_range) ELSE p6

\* the seven assignments "if x is not None: _laptop_preferences[x] = x"
agent_apply_updates(prefs, patch) ==
    LET p1 == IF patch.purpose # PyNone
              THEN DictSet(prefs, <<"purpose">>, patch.purpose) ELSE prefs
        p2 == IF patch.processor # PyNone
              THEN DictSet(p1, <<"processor">>, patch.processor) ELSE p1
        p3 == IF patch.ram # PyNone
              THEN DictSet(p2, <<"ram">>, patch.ram) ELSE p2
        p4 == IF patch.storage # PyNone
              THEN DictSet(p3, <<"storage">>, patch.storage) ELSE p3
        p5 == IF patch.graphics # PyNone
              THEN DictSet(p4, <<"graphics">>, patch.graphics) ELSE p4
        p6 == IF patch.display # PyNone
              THEN DictSet(p5, <<"display">>, patch.display) ELSE p5
    IN  IF patch.price_range # PyNone
        THEN DictSet(p6, <<"price_range">>, patch.price_range) ELSE p6

\* a slip in the comprehension: an unspecified field counted as missing too
agent_missing_fields_with_unspecified(prefs) ==
    LET unset(item) == item.val = PyNone \/ agent_is_unspecified(item.val)
    IN  Keys(SelectSeq(prefs, unset))

\* [key for key, value in _laptop_preferences.items() if value is None]
agent_missing_fields(prefs) ==
    LET unset(item) == item.val = PyNone
    IN  Keys(SelectSeq(prefs, unset))

\* update_laptop_preferences_and_search_text(purpose, ..., price_range), the
\* seven arguments given as the record patch
update_laptop_preferences_and_search_text(patch) ==
    /\ _laptop_preferences' = agent_apply_updates(_laptop_preferences, patch)
    /\ call' = [op |-> "update", preferences_json |-> <<>>, patch |-> patch]
    /\ ret' = [raised |-> "",
               preferences_json |-> json_dumps(_laptop_preferences'),
               search_text |-> agent_build_search_text_from_preferences(_laptop_preferences'),
               missing_fields |-> agent_missing_fields(_laptop_preferences')]

----------------------------------------------------------------------------
(* agents/search_agents.py: _is_unspecified and _build_search_text_from_preferences *)

\* a slip in _is_unspecified: "len(value) > 0 and" left out
search_agents_is_unspecified_empty_list(value) ==
    CASE value.t = "none" -> FALSE
      [] value.t = "str" -> Lower(Strip(value.s)) = UNSPECIFIED
      [] value.t = "list" ->
            \A i \in 1..Len(value.l) :
                /\ value.l[i].t = "str"
                /\ Lower(Strip(value.l[i].s)) = UNSPECIFIED
      [] OTHER -> FALSE

\* _is_unspecified(value) of agents/search_agents.py
search_agents_is_unspecified(value) ==
    CASE value.t = "none" -> FALSE
      [] value.t = "str" -> Lower(Strip(value.s)) = UNSPECIFIED
      [] value.t = "list" ->
            /\ Len(value.l) > 0
            /\ \A i \in 1..Len(value.l) :
                  /\ value.l[i].t = "str"
                  /\ Lower(Strip(value.l[i].s)) = UNSPECIFIED
      [] OTHER -> FALSE

\* a slip in the purpose block: the test of each entry against the sentinel
\* left out
search_agents_purpose_parts_keeps_sentinel(purpose_value) ==
    IF Truthy(purpose_value) /\ ~search_agents_is_unspecified(purpose_value)
    THEN IF purpose_value.t = "list"
         THEN LET keep(p) == /\ p.t = "str"
                             /\ Strip(p.s) # <<>>
                  kept == SelectSeq(purpose_value.l, keep)
              IN  [i \in 1..Len(kept) |-> Strip(kept[i].s) \o <<" laptop">>]
         ELSE IF purpose_value.t = "str"
              THEN << Strip(purpose_value.s) \o <<" laptop">> >>
              ELSE <<>>
    ELSE <<>>

\* the purpose block of _build_search_text_from_preferences of agents/search_agents.py
search_agents_purpose_parts(purpose_value) ==
    IF Truthy(purpose_value) /\ ~search_agents_is_unspecified(purpose_value)
    THEN IF purpose_value.t = "list"
         THEN LET keep(p) == /\ p.t = "str"
                             /\ Strip(p.s) # <<>>
                             /\ Lower(Strip(p.s)) # UNSPECIFIED
                  kept == SelectSeq(purpose_value.l, keep)
              IN  [i \in 1..Len(kept) |-> Strip(kept[i].s) \o <<" laptop">>]
         ELSE IF purpose_value.t = "str"
              THEN IF Lower(Strip(purpose_value.s)) # UNSPECIFIED
                   THEN << Strip(purpose_value.s) \o <<" laptop">> >>
                   ELSE <<>>
              ELSE <<>>
    ELSE <<>>

\* the test guarding each single-valued field's fragment in agents/search_agents.py
search_agents_is_concrete(value) ==
    /\ value.t = "str"
    /\ Strip(value.s) # <<>>
    /\ ~search_agents_is_unspecified(value)

\* _build_search_text_from_preferences(prefs) of agents/search_agents.py
search_agents_build_search_text_from_preferences(prefs) ==
    LET processor_value == DictGet(prefs, <<"processor">>)
        ram_value == DictGet(prefs, <<"ram">>)
        storage_value == DictGet(prefs, <<"storage">>)
        graphics_value == DictGet(prefs, <<"graphics">>)
        display_value == DictGet(prefs, <<"display">>)
        price_range_value == DictGet(prefs, <<"price_range">>)
        parts ==
            search_agents_purpose_parts(DictGet(prefs, <<"purpose">>))
            \o (IF search_agents_is_concrete(processor_value)
                THEN << <<"with ">> \o Strip(processor_value.s) \o <<" processor">> >>
                ELSE <<>>)
            \o (IF search_agents_is_concrete(ram_value)
                THEN << Strip(ram_value.s) \o <<" RAM">> >>
                ELSE <<>>)
            \o (IF search_agents_is_concrete(storage_value)
                THEN << Strip(storage_value.s) \o <<" storage">> >>
                ELSE <<>>)
            \o (IF search_agents_is_concrete(graphics_value)
                THEN << Strip(graphics_value.s) \o <<" graphics">> >>
                ELSE <<>>)
            \o (IF search_agents_is_concrete(display_value)
                THEN << Strip(display_value.s) \o <<" display">> >>
                ELSE <<>>)
            \o (IF search_agents_is_concrete(price_range_value)
                THEN << <<"within budget ">> \o Strip(price_range_value.s) >>
                ELSE <<>>)
    IN  IF parts = <<>>
        THEN <<"laptop recommendations">>
        ELSE Join(<<" ">>, parts) \o <<" best laptop recommendations">>

\* a slip in the except branch: prefs = None in place of prefs = {}
search_agents_parse_none_on_error(preferences_json) ==
    IF preferences_json # <<>>
    THEN LET decoded == json_loads(preferences_json)
         IN  IF decoded.ok THEN decoded.val ELSE PyNone
    ELSE PyDict(<<>>)

\* the try block: the dict to start from, or the decoded value
search_agents_parse(preferences_json) ==
    IF preferences_json # <<>>
    THEN LET decoded == json_loads(preferences_json)
         IN  IF decoded.ok THEN decoded.val ELSE PyDict(<<>>)
    ELSE PyDict(<<>>)

\* a slip in the back-fill: prefs[key] = None in place of setdefault
search_agents_setdefaults_overwrites(prefs) ==
    DictSet(DictSet(DictSet(DictSet(DictSet(DictSet(DictSet(prefs,
        <<"purpose">>, PyNone), <<"processor">>, PyNone), <<"ram">>, PyNone),
        <<"storage">>, PyNone), <<"graphics">>, PyNone), <<"display">>, PyNone),
        <<"price_range">>, PyNone)

\* the seven calls prefs.setdefault(key, None)
search_agents_setdefaults(prefs) ==
    DictSetDefault(DictSetDefault(DictSetDefault(DictSetDefault(
    DictSetDefault(DictSetDefault(DictSetDefault(prefs,
        <<"purpose">>), <<"processor">>), <<"ram">>), <<"storage">>),
        <<"graphics">>), <<"display">>), <<"price_range">>)

\* a slip in the assignments: every argument is stored, None included
search_agents_apply_updates_assigns_none(prefs, patch) ==
    DictSet(DictSet(DictSet(DictSet(DictSet(DictSet(DictSet(prefs,
        <<"purpose">>, patch.purpose), <<"processor">>, patch.processor),
        <<"ram">>, patch.ram), <<"storage">>, patch.storage),
        <<"graphics">>, patch.graphics), <<"display">>, patch.display),
        <<"price_range">>, patch.price_range)

\* the seven assignments "if x is not None: prefs[x] = x"
search_agents_apply_updates(prefs, patch) ==
    LET p1 == IF patch.purpose # PyNone
              THEN DictSet(prefs, <<"purpose">>, patch.purpose) ELSE prefs
        p2 == IF patch.processor # PyNone
              THEN DictSet(p1, <<"processor">>, patch.processor) ELSE p1
        p3 == IF patch.ram # PyNone
              THEN DictSet(p2, <<"ram">>, patch.ram) ELSE p2
        p4 == IF patch.storage # PyNone
              THEN DictSet(p3, <<"storage">>, patch.storage) ELSE p3
        p5 == IF patch.graphics # PyNone
              THEN DictSet(p4, <<"graphics">>, patch.graphics) ELSE p4
        p6 == IF patch.display # PyNone
              THEN DictSet(p5, <<"display">>, patch.display) ELSE p5
    IN  IF patch.price_range # PyNone
        THEN DictSet(p6, <<"price_range">>, patch.price_range) ELSE p6

\* what modify_laptop_requirements returns; a value that is no dict has no
\* setdefault, and the AttributeError leaves the function
search_agents_result(preferences_json, patch) ==
    LET prefs == search_agents_parse(preferences_json)
        updated == search_agents_apply_updates(search_agents_setdefaults(prefs.d), patch)
    IN  IF prefs.t # "dict"
        THEN [raised |-> "AttributeError", preferences_json |-> <<>>,
              search_text |-> <<>>, missing_fields |-> <<>>]
        ELSE [raised |-> "",
              preferences_json |-> json_dumps(updated),
              search_text |-> search_agents_build_search_text_from_preferences(updated),
              missing_fields |-> <<>>]

\* modify_laptop_requirements(preferences_json, purpose, ..., price_range), the
\* seven optional arguments given as the record patch
modify_laptop_requirements(preferences_json, patch) ==
    /\ call' = [op |-> "modify", preferences_json |-> preferences_json, patch |-> patch]
    /\ ret' = search_agents_result(preferences_json, patch)
    /\ UNCHANGED _laptop_preferences

----------------------------------------------------------------------------
(* The arguments the tools are called with *)

\* the most arguments other than None that one call is given
MaxPatchFields == 1

PurposeArgs ==
    {PyList(<<PyStr(<<"c", "o", "d", "i", "n", "g">>)>>),
     PyList(<<PyStr(<<"g", "a", "m", "i", "n", "g">>), PyStr(<<" ", "U", "n", "s", "p", "e", "c", "i", "f", "i", "e", "d", " ">>)>>),
     PyList(<<PyStr(<<"U", "n", "s", "p", "e", "c", "i", "f", "i", "e", "d">>), PyStr(<<" ", "U", "N", "S", "P", "E", "C", "I", "F", "I", "E", "D", " ">>)>>)}

ProcessorArgs == {PyStr(<<"I", "n", "t", "e", "l", " ", "i", "7">>), PyStr(<<"U", "N", "S", "P", "E", "C", "I", "F", "I", "E", "D">>)}

RamArgs == {PyStr(<<" ", "1", "6", "G", "B", " ">>), PyStr(<<"u", "n", "s", "p", "e", "c", "i", "f", "i", "e", "d">>)}

StorageArgs == {PyStr(<<"1", "T", "B", " ", "S", "S", "D">>), PyStr(<<" ", "U", "n", "s", "p", "e", "c", "i", "f", "i", "e", "d", " ">>), PyStr(<<" ", " ">>)}

GraphicsArgs == {PyStr(<<"R", "T", "X">>), PyStr(<<"\t", "u", "n", "s", "p", "e", "c", "i", "f", "i", "e", "d", "\n">>)}

DisplayArgs == {PyStr(<<"O", "L", "E", "D">>), PyStr(<<"U", "n", "S", "p", "E", "c", "I", "f", "I", "e", "D">>)}

PriceRangeArgs == {PyStr(<<"$", "1", "3", "0", "0">>), PyStr(<<"u", "n", "s", "p", "e", "c", "i", "f", "i", "e", "d", " ">>)}

ArgsOf(param) ==
    CASE param = "purpose" -> PurposeArgs
      [] param = "processor" -> ProcessorArgs
      [] param = "ram" -> RamArgs
      [] param = "storage" -> StorageArgs
      [] param = "graphics" -> GraphicsArgs
      [] param = "display" -> DisplayArgs
      [] param = "price_range" -> PriceRangeArgs

ParamSet == {Params[i] : i \in 1..Len(Params)}

\* the calls that give exactly the parameters of given a value other than None
PatchesOn(given) ==
    LET any == UNION {ArgsOf(param) : param \in given}
        typed == {g \in [given -> any] : \A param \in given : g[param] \in ArgsOf(param)}
    IN  {[param \in ParamSet |-> IF param \in given THEN g[param] ELSE PyNone] : g \in typed}

Patches ==
    UNION {PatchesOn(given) :
             given \in {g \in SUBSET ParamSet : Cardinality(g) <= MaxPatchFields}}

NoPatch == [param \in ParamSet |-> PyNone]

\* a record that lacks five of the seven keys, and one that also holds a key
\* and values of types the tools do not produce
PartialRecord ==
    <<[key |-> <<"ram">>, val |-> PyStr(<<" ", "1", "6", "G", "B", " ">>)],
      [key |-> <<"purpose">>, val |-> PyList(<<PyStr(<<"c", "o", "d", "i", "n", "g">>)>>)]>>

ForeignRecord ==
    <<[key |-> <<"brand">>, val |-> PyStr(<<"D", "e", "l", "l">>)],
      [key |-> <<"purpose">>, val |-> PyStr(<<" ", "g", "a", "m", "i", "n", "g", " ">>)],
      [key |-> <<"ram">>, val |-> PyInt(<<"16">>)],
      [key |-> <<"display">>, val |-> PyList(<<PyStr(<<"O", "L", "E", "D">>)>>)]>>

\* texts that json.loads rejects: whitespace only, no JSON at all, an object
\* cut short, a trailing comma, a second value after the first
UndecodableTexts ==
    {<<WsTok(<<" ">>)>>,
     <<BadTok(<<"not json">>)>>,
     <<Tok("{"), StrTok(<<"ram">>), Tok(":")>>,
     <<Tok("{"), StrTok(<<"ram">>), Tok(":"), StrTok(<<" ", "1", "6", "G", "B", " ">>), Tok(","), Tok("}")>>,
     <<Tok("{"), Tok("}"), WsTok(<<" ">>), Tok("{"), Tok("}")>>}

\* texts that decode to a value that is no object
NonObjectTexts ==
    {<<Tok("["), Tok("]")>>,
     <<Tok("null")>>,
     <<StrTok(<<"c", "o", "d", "i", "n", "g">>)>>,
     <<NumTok(<<"16">>)>>}

\* texts that decode to an object
ObjectTexts ==
    {<<Tok("{"), Tok("}")>>, json_dumps(PartialRecord), json_dumps(ForeignRecord)}

\* the preferences_json texts a conversation can start from
ModifyTexts == {<<>>} \cup UndecodableTexts \cup NonObjectTexts \cup ObjectTexts

----------------------------------------------------------------------------
(* The program.  The agent runtime answers one tool call at a time: a call *)
(* is made when no call is being answered, and Respond hands its result to *)
(* the agent.                                                              *)

\* the most conversations served by the process at the same time
MaxConversations == 2

Conversations == 1..MaxConversations

NoCall == [op |-> "none", preferences_json |-> <<>>, patch |-> NoPatch]
NoReturn == [raised |-> "", preferences_json |-> <<>>, search_text |-> <<>>,
             missing_fields |-> <<>>]

\* a conversation in which no tool call is running
IdleFrame ==
    [op |-> "none", pc |-> "idle", preferences_json |-> <<>>, patch |-> NoPatch,
     seen |-> <<>>, prefs |-> PyNone, ret |-> NoReturn]

NoFrames == [c \in Conversations |-> IdleFrame]

Init ==
    /\ frames = NoFrames
    /\ _laptop_preferences = InitialPreferences
    /\ known_json = <<>>
    /\ call = NoCall
    /\ before = <<>>
    /\ ret = NoReturn

\* the root agent calls update_laptop_preferences_and_search_text and keeps
\* the preferences_json it returns
Update ==
    /\ call.op = "none"
    /\ \E patch \in Patches : update_laptop_preferences_and_search_text(patch)
    /\ before' = _laptop_preferences
    /\ known_json' = ret'.preferences_json
    /\ UNCHANGED frames

\* the search agent calls modify_laptop_requirements with the preferences_json
\* originally provided in its input
ModifyOriginal ==
    /\ call.op = "none"
    /\ \E patch \in Patches : modify_laptop_requirements(known_json, patch)
    /\ before' = _laptop_preferences
    /\ UNCHANGED <<known_json, frames>>

\* the agent reads the result of the call
Respond ==
    /\ call.op # "none"
    /\ call' = NoCall
    /\ before' = <<>>
    /\ ret' = NoReturn
    /\ UNCHANGED <<_laptop_preferences, known_json, frames>>

Next == Update \/ ModifyOriginal \/ Respond

Spec == Init /\ [][Next]_vars

\* A conversation of the search agent alone: it is handed some text as the
\* preferences_json and feeds each result of modify_laptop_requirements back
\* into the next call.
InitModify ==
    /\ frames = NoFrames
    /\ _laptop_preferences = InitialPreferences
    /\ known_json \in ModifyTexts
    /\ call = NoCall
    /\ before = <<>>
    /\ ret = NoReturn

\* the search agent calls modify_laptop_requirements with the latest
\* preferences_json and keeps the one it returns
ModifyLatest ==
    /\ call.op = "none"
    /\ \E patch \in Patches : modify_laptop_requirements(known_json, patch)
    /\ before' = _laptop_preferences
    /\ known_json' = IF ret'.raised = "" THEN ret'.preferences_json ELSE known_json
    /\ UNCHANGED frames

NextModify == ModifyLatest \/ Respond

SpecModify == InitModify /\ [][NextModify]_vars

----------------------------------------------------------------------------
(* Several conversations served by threads of one process.  A tool call is *)
(* a run of statements, and the statements of the calls of different       *)
(* conversations interleave.  _laptop_preferences is the one module-level  *)
(* dict of agents/agent.py; prefs is local to a call of                    *)
(* modify_laptop_requirements.                                             *)

\* the arguments and the preferences_json the concurrent calls are given
ConcurrentPatches ==
    {[NoPatch EXCEPT !.ram = PyStr(<<" ", "1", "6", "G", "B", " ">>)],
     [NoPatch EXCEPT !.purpose =
         PyList(<<PyStr(<<"g", "a", "m", "i", "n", "g">>), PyStr(<<" ", "U", "n", "s", "p", "e", "c", "i", "f", "i", "e", "d", " ">>)>>)]}

ConcurrentTexts == {<<>>, json_dumps(PartialRecord), <<Tok("["), Tok("]")>>}

\* conversation c's frame becomes f, the other conversations' frames stay
SetFrame(c, f) == frames' = [frames EXCEPT ![c] = f]

\* a thread enters modify_laptop_requirements for conversation c
CallModify(c) ==
    /\ frames[c].pc = "idle"
    /\ \E preferences_json \in ConcurrentTexts, patch \in ConcurrentPatches :
          SetFrame(c, [IdleFrame EXCEPT !.op = "modify", !.pc = "loads",
                                        !.preferences_json = preferences_json,
                                        !.patch = patch,
                                        !.seen = _laptop_preferences])
    /\ UNCHANGED <<_laptop_preferences, known_json, call, before, ret>>

\* a slip in the try block: with no text given, prefs is the module-level dict
ModifyLoads_shared(c) ==
    /\ frames[c].op = "modify"
    /\ frames[c].pc = "loads"
    /\ SetFrame(c, [frames[c] EXCEPT
                       !.prefs = IF frames[c].preferences_json = <<>>
                                 THEN PyDict(_laptop_preferences)
                                 ELSE search_agents_parse(frames[c].preferences_json),
                       !.pc = "setdefault"])
    /\ UNCHANGED <<_laptop_preferences, known_json, call, before, ret>>

\* try: prefs = json.loads(preferences_json) if preferences_json else {}
\* except (json.JSONDecodeError, TypeError): prefs = {}
ModifyLoads(c) ==
    /\ frames[c].op = "modify"
    /\ frames[c].pc = "loads"
    /\ SetFrame(c, [frames[c] EXCEPT
                       !.prefs = search_agents_parse(frames[c].preferences_json),
                       !.pc = "setdefault"])
    /\ UNCHANGED <<_laptop_preferences, known_json, call, before, ret>>

\* the seven calls prefs.setdefault(key, None); the first raises if prefs is
\* no dict
ModifySetdefaults(c) ==
    /\ frames[c].op = "modify"
    /\ frames[c].pc = "setdefault"
    /\ IF frames[c].prefs.t # "dict"
       THEN SetFrame(c, [frames[c] EXCEPT !.ret.raised = "AttributeError",
                                          !.pc = "done"])
       ELSE SetFrame(c, [frames[c] EXCEPT
                            !.prefs = PyDict(search_agents_setdefaults(frames[c].prefs.d)),
                            !.pc = "assign"])
    /\ UNCHANGED <<_laptop_preferences, known_json, call, before, ret>>

\* the seven assignments "if x is not None: prefs[x] = x"
ModifyAssign(c) ==
    /\ frames[c].op = "modify"
    /\ frames[c].pc = "assign"
    /\ SetFrame(c, [frames[c] EXCEPT
                       !.prefs = PyDict(search_agents_apply_updates(frames[c].prefs.d,
                                                                    frames[c].patch)),
                       !.pc = "dumps"])
    /\ UNCHANGED <<_laptop_preferences, known_json, call, before, ret>>

\* updated_preferences_json = json.dumps(prefs, indent=2)
ModifyDumps(c) ==
    /\ frames[c].op = "modify"
    /\ frames[c].pc = "dumps"
    /\ SetFrame(c, [frames[c] EXCEPT
                       !.ret.preferences_json = json_dumps(frames[c].prefs.d),
                       !.pc = "build"])
    /\ UNCHANGED <<_laptop_preferences, known_json, call, before, ret>>

\* search_text = _build_search_text_from_preferences(prefs), and the return
ModifyBuild(c) ==
    /\ frames[c].op = "modify"
    /\ frames[c].pc = "build"
    /\ SetFrame(c, [frames[c] EXCEPT
                       !.ret.search_text =
                           search_agents_build_search_text_from_preferences(frames[c].prefs.d),
                       !.pc = "done"])
    /\ UNCHANGED <<_laptop_preferences, known_json, call, before, ret>>

\* a thread enters update_laptop_preferences_and_search_text for conversation c
CallUpdate(c) ==
    /\ frames[c].pc = "idle"
    /\ \E patch \in ConcurrentPatches :
          SetFrame(c, [IdleFrame EXCEPT !.op = "update", !.pc = "assign",
                                        !.patch = patch,
                                        !.seen = _laptop_preferences])
    /\ UNCHANGED <<_laptop_preferences, known_json, call, before, ret>>

\* the seven assignments "if x is not None: _laptop_preferences[x] = x"
UpdateAssign(c) ==
    /\ frames[c].op = "update"
    /\ frames[c].pc = "assign"
    /\ _laptop_preferences' = agent_apply_updates(_laptop_preferences, frames[c].patch)
    /\ SetFrame(c, [frames[c] EXCEPT !.pc = "dumps"])
    /\ UNCHANGED <<known_json, call, before, ret>>

\* preferences_json = json.dumps(_laptop_preferences, indent=2)
UpdateDumps(c) ==
    /\ frames[c].op = "update"
    /\ frames[c].pc = "dumps"
    /\ SetFrame(c, [frames[c] EXCEPT
                       !.ret.preferences_json = json_dumps(_laptop_preferences),
                       !.pc = "build"])
    /\ UNCHANGED <<_laptop_preferences, known_json, call, before, ret>>

\* search_text = _build_search_text_from_preferences(_laptop_preferences)
UpdateBuild(c) ==
    /\ frames[c].op = "update"
    /\ frames[c].pc = "build"
    /\ SetFrame(c, [frames[c] EXCEPT
                       !.ret.search_text =
                           agent_build_search_text_from_preferences(_laptop_preferences),
                       !.pc = "missing"])
    /\ UNCHANGED <<_laptop_preferences, known_json, call, before, ret>>

\* missing_fields = [...], and the return
UpdateMissing(c) ==
    /\ frames[c].op = "update"
    /\ frames[c].pc = "missing"
    /\ SetFrame(c, [frames[c] EXCEPT
                       !.ret.missing_fields = agent_missing_fields(_laptop_preferences),
                       !.pc = "done"])
    /\ UNCHANGED <<_laptop_preferences, known_json, call, before, ret>>

\* the agent of conversation c reads the result of its call
Finish(c) ==
    /\ frames[c].pc = "done"
    /\ SetFrame(c, IdleFrame)
    /\ UNCHANGED <<_laptop_preferences, known_json, call, before, ret>>

NextConcurrent ==
    \E c \in Conversations :
        \/ CallModify(c)
        \/ ModifyLoads(c)
        \/ ModifySetdefaults(c)
        \/ ModifyAssign(c)
        \/ ModifyDumps(c)
        \/ ModifyBuild(c)
        \/ CallUpdate(c)
        \/ UpdateAssign(c)
        \/ UpdateDumps(c)
        \/ UpdateBuild(c)
        \/ UpdateMissing(c)
        \/ Finish(c)

SpecConcurrent == Init /\ [][NextConcurrent]_vars

----------------------------------------------------------------------------
(* The helpers called on their own: each copy of _is_unspecified and of    *)
(* _build_search_text_from_preferences applied to a value that need not    *)
(* come from a tool call.                                                  *)

\* the whitespace put before and after a word
LeftPads == {<<>>, <<" ">>, <<"\t", " ">>}
RightPads == {<<>>, <<" ">>, <<"\n">>}

\* the sentinel in three spellings, the sentinel cut short, doubled and split,
\* another word, and no word
Words ==
    {<<"u", "n", "s", "p", "e", "c", "i", "f", "i", "e", "d">>,
     <<"U", "N", "S", "P", "E", "C", "I", "F", "I", "E", "D">>,
     <<"U", "n", "S", "p", "e", "c", "i", "f", "i", "e", "D">>,
     <<"u", "n", "s", "p", "e", "c", "i", "f", "i", "e">>,
     <<"u", "n", "s", "p", "e", "c", "i", "f", "i", "e", "d", "d">>,
     <<"u", "n", " ", "s", "p", "e", "c", "i", "f", "i", "e", "d">>,
     <<"g", "a", "m", "i", "n", "g">>,
     <<>>}

StrValues == {PyStr(l \o w \o r) : l \in LeftPads, w \in Words, r \in RightPads}

\* the entries of the lists: sentinels, concrete words, blanks, and values
\* that are no str
Entries ==
    {PyStr(<<"U", "n", "s", "p", "e", "c", "i", "f", "i", "e", "d">>),
     PyStr(<<" ", "U", "N", "S", "P", "E", "C", "I", "F", "I", "E", "D", " ">>),
     PyStr(<<"c", "o", "d", "i", "n", "g">>),
     PyStr(<<" ", "g", "a", "m", "i", "n", "g", " ">>),
     PyStr(<<>>),
     PyStr(<<" ", " ">>),
     PyNone,
     PyInt(<<"16">>)}

\* the most entries of a list
MaxEntries == 3

ListValues ==
    {PyList(items) : items \in UNION {[1..n -> Entries] : n \in 0..MaxEntries}}

\* every value _is_unspecified is given
Values == {PyNone, PyInt(<<"16">>), PyDict(<<>>)} \cup StrValues \cup ListValues

\* the records _build_search_text_from_preferences is given: a purpose list,
\* and ram either unset or set
PurposeRecords ==
    {DictSet(DictSet(InitialPreferences, <<"purpose">>, purpose), <<"ram">>, ram) :
        purpose \in ListValues,
        ram \in {PyNone, PyStr(<<" ", "1", "6", "G", "B", " ">>)}}

\* _is_unspecified(value), in agents/agent.py and in agents/search_agents.py
IsUnspecified ==
    /\ call.op = "none"
    /\ \E value \in Values :
          /\ call' = [op |-> "_is_unspecified", value |-> value]
          /\ ret' = [agent |-> agent_is_unspecified(value),
                     search_agents |-> search_agents_is_unspecified(value)]
    /\ UNCHANGED <<_laptop_preferences, known_json, before, frames>>

\* _build_search_text_from_preferences(prefs), in agents/agent.py and in
\* agents/search_agents.py
BuildSearchText ==
    /\ call.op = "none"
    /\ \E prefs \in PurposeRecords :
          /\ call' = [op |-> "_build_search_text_from_preferences", prefs |-> prefs]
          /\ ret' = [agent |-> agent_build_search_text_from_preferences(prefs),
                     search_agents |->
                         search_agents_build_search_text_from_preferences(prefs)]
    /\ UNCHANGED <<_laptop_preferences, known_json, before, frames>>

NextHelpers == IsUnspecified \/ BuildSearchText \/ Respond

SpecHelpers == Init /\ [][NextHelpers]_vars

----------------------------------------------------------------------------
(* The vocabulary of the claims *)

\* a call has been answered with a result (it did not raise)
Returned == call.op # "none" /\ ret.raised = ""

\* the record a call started from: the process-wide record for update, the
\* decoded preferences_json (an empty record if it does not decode) for modify
OldRecord ==
    IF call.op = "update" THEN before
    ELSE search_agents_parse(call.preferences_json).d

\* the record a call ends with: the process-wide record for update, the
\* record that the returned preferences_json encodes for modify
NewRecord ==
    IF call.op = "update" THEN _laptop_preferences
    ELSE json_loads(ret.preferences_json).val.d

KeyOf(param) == <<param>>

\* the state of a field: "unset", "unspecified", "set", or "blank" for a value
\* that is none of the three (an empty or all-whitespace text, a list with no
\* concrete entry that is not all sentinels)
StateOf(value) ==
    CASE value.t = "none" -> "unset"
      [] value.t = "str" ->
            IF Lower(Strip(value.s)) = UNSPECIFIED THEN "unspecified"
            ELSE IF Strip(value.s) = <<>> THEN "blank" ELSE "set"
      [] value.t = "list" ->
            LET sentinel(i) == /\ value.l[i].t = "str"
                               /\ Lower(Strip(value.l[i].s)) = UNSPECIFIED
                concrete(i) == /\ value.l[i].t = "str"
                               /\ Strip(value.l[i].s) # <<>>
                               /\ ~sentinel(i)
            IN  IF value.l # <<>> /\ \A i \in 1..Len(value.l) : sentinel(i)
                THEN "unspecified"
                ELSE IF \E i \in 1..Len(value.l) : concrete(i) THEN "set" ELSE "blank"
      [] OTHER -> "blank"

\* the text around the trimmed value in each field's fragment
FragmentPrefix ==
    [purpose |-> <<>>, processor |-> <<"with ">>, ram |-> <<>>, storage |-> <<>>,
     graphics |-> <<>>, display |-> <<>>, price_range |-> <<"within budget ">>]

FragmentSuffix ==
    [purpose |-> <<" laptop">>, processor |-> <<" processor">>, ram |-> <<" RAM">>,
     storage |-> <<" storage">>, graphics |-> <<" graphics">>,
     display |-> <<" display">>, price_range |-> <<>>]

\* the fragments the specification gives a field: none unless it is set, one
\* for a text, one for each concrete entry of a list
FragmentsOf(param, value) ==
    IF StateOf(value) # "set" THEN <<>>
    ELSE IF value.t = "str"
         THEN << FragmentPrefix[param] \o Strip(value.s) \o FragmentSuffix[param] >>
         ELSE LET concrete(e) == StateOf(e) = "set"
                  entries == SelectSeq(value.l, concrete)
              IN  [i \in 1..Len(entries) |->
                     FragmentPrefix[param] \o Strip(entries[i].s) \o FragmentSuffix[param]]

RECURSIVE FragmentsFrom(_, _)
\* the fragments of the fields from the i-th on, in the fixed order
FragmentsFrom(record, i) ==
    IF i > Len(Params) THEN <<>>
    ELSE FragmentsOf(Params[i], DictGet(record, KeyOf(Params[i])))
         \o FragmentsFrom(record, i + 1)

ExpectedFragments(record) == FragmentsFrom(record, 1)

\* some call so far has given the parameter a value other than None
AssignedSoFar(param) ==
    DictGet(before, KeyOf(param)) # PyNone \/ call.patch[param] # PyNone

\* the names of the fields in the fixed order
FieldOrder == [i \in 1..Len(Params) |-> KeyOf(Params[i])]

----------------------------------------------------------------------------
(* The claims *)

\* C1: the search text a call returns is, whenever the record it ends with has
\* a set field, the fragments of the set fields in the fixed order purpose,
\* processor, ram, storage, graphics, display, price_range (one fragment per
\* concrete purpose entry, each around the trimmed value), joined by single
\* spaces and followed by " best laptop recommendations".
C1_SearchTextOfSetFields ==
    Returned =>
        LET fragments == ExpectedFragments(NewRecord)
        IN  fragments # <<>> =>
              ret.search_text =
                 Join(<<" ">>, fragments) \o <<" best laptop recommendations">>

\* C1 happens: update has returned with all seven fields set
C1_Witness ==
    /\ call.op = "update"
    /\ \A i \in 1..Len(Params) :
          StateOf(DictGet(_laptop_preferences, KeyOf(Params[i]))) = "set"
    /\ Len(ExpectedFragments(_laptop_preferences)) >= Len(Params)

\* C2: the search text a call returns is "laptop recommendations" exactly
\* when the record it ends with yields no fragment.
C2_FallbackText ==
    Returned =>
        ((ExpectedFragments(NewRecord) = <<>>)
            <=> (ret.search_text = <<"laptop recommendations">>))

\* C2 happens: a call has returned the fallback for a record in which a field
\* is unspecified and no field is set
C2_Witness ==
    /\ Returned
    /\ ret.search_text = <<"laptop recommendations">>
    /\ \E i \in 1..Len(Params) :
          StateOf(DictGet(NewRecord, KeyOf(Params[i]))) = "unspecified"

\* C3: a field holding the sentinel in any letter case and with any
\* surrounding whitespace (for purpose, a non-empty list of nothing else) adds
\* nothing to the search text update returns, which is the text of the same
\* record with that field unset, and is not among the missing_fields.
C3_UnspecifiedExcluded ==
    call.op = "update" =>
        \A i \in 1..Len(Params) :
            LET key == KeyOf(Params[i])
            IN  StateOf(DictGet(_laptop_preferences, key)) = "unspecified" =>
                  /\ \A j \in 1..Len(ret.missing_fields) : ret.missing_fields[j] # key
                  /\ FragmentsOf(Params[i], DictGet(_laptop_preferences, key)) = <<>>
                  /\ ret.search_text =
                        agent_build_search_text_from_preferences(
                            DictSet(_laptop_preferences, key, PyNone))

\* C3 happens: update has returned with an unspecified field, a set field
\* and an unset field
C3_Witness ==
    /\ call.op = "update"
    /\ \E i, j, k \in 1..Len(Params) :
          /\ StateOf(DictGet(_laptop_preferences, KeyOf(Params[i]))) = "unspecified"
          /\ StateOf(DictGet(_laptop_preferences, KeyOf(Params[j]))) = "set"
          /\ StateOf(DictGet(_laptop_preferences, KeyOf(Params[k]))) = "unset"
          /\ DictGet(_laptop_preferences, KeyOf(Params[i])) # PyStr(UNSPECIFIED)

\* C4: the missing_fields update returns are the unset fields of the record,
\* each once, in the fixed order, and there are none exactly when every one of
\* the seven fields has been assigned by some call.
C4_MissingFields ==
    call.op = "update" =>
        LET unset(key) == StateOf(DictGet(_laptop_preferences, key)) = "unset"
        IN  /\ ret.missing_fields = SelectSeq(FieldOrder, unset)
            /\ (ret.missing_fields = <<>>)
                  <=> (\A i \in 1..Len(Params) : AssignedSoFar(Params[i]))

\* C4 happens: update has returned no missing field
C4_Witness ==
    /\ call.op = "update"
    /\ ret.missing_fields = <<>>
    /\ \A i \in 1..Len(Params) : AssignedSoFar(Params[i])

\* C5: update on the all-unset record reports all seven names in the fixed
\* order; a field that some call has assigned is not among the missing_fields
\* of that call or of a later one; and no step returns a field of the
\* process-wide record to unset.
C5_MissingFieldsMonotone ==
    /\ [](call.op = "update" =>
            /\ (\A i \in 1..Len(Params) : ~AssignedSoFar(Params[i]))
                  => ret.missing_fields = FieldOrder
            /\ \A i \in 1..Len(Params) :
                  AssignedSoFar(Params[i]) =>
                     /\ DictGet(_laptop_preferences, KeyOf(Params[i])) # PyNone
                     /\ \A j \in 1..Len(ret.missing_fields) :
                           ret.missing_fields[j] # KeyOf(Params[i]))
    /\ [][\A i \in 1..Len(Params) :
             DictGet(_laptop_preferences, KeyOf(Params[i])) # PyNone
                => DictGet(_laptop_preferences', KeyOf(Params[i])) # PyNone]_vars

\* C5 happens: a later update, which does not name a field assigned earlier,
\* has returned while another field is still missing
C5_Witness ==
    /\ call.op = "update"
    /\ ret.missing_fields # <<>>
    /\ \E i \in 1..Len(Params) :
          /\ DictGet(before, KeyOf(Params[i])) # PyNone
          /\ call.patch[Params[i]] = PyNone

\* the all-unset seven-field record with the given arguments assigned
FreshRecordWith(patch) ==
    [i \in 1..Len(Params) |-> [key |-> KeyOf(Params[i]), val |-> patch[Params[i]]]]

\* the text given to modify is empty or is one json.loads rejects
Undecodable(text) == text = <<>> \/ ~json_loads(text).ok

\* C6: modify given a preferences_json that is empty or does not decode
\* returns normally: the record it returns is the all-unset seven-field record
\* with exactly the arguments other than None assigned, and the search text is
\* the one built from that record.
C6_ModifyUndecodable ==
    (call.op = "modify" /\ Undecodable(call.preferences_json)) =>
        /\ ret.raised = ""
        /\ json_loads(ret.preferences_json).ok
        /\ NewRecord = FreshRecordWith(call.patch)
        /\ ret.search_text =
              search_agents_build_search_text_from_preferences(
                  FreshRecordWith(call.patch))

\* C6 happens: modify has returned for a text that is not empty and does not
\* decode, with ram given
C6_Witness ==
    /\ call.op = "modify"
    /\ call.preferences_json # <<>>
    /\ ~json_loads(call.preferences_json).ok
    /\ call.patch.ram # PyNone
    /\ ret.raised = ""

\* C7: modify returns a result for every preferences_json text, whether it is
\* empty, does not decode, or decodes to any JSON value.
C7_ModifyTotal == call.op = "modify" => ret.raised = ""

\* C8: modify given the encoding of a record and no other argument returns a
\* record that holds all seven keys, in which every key of the given record
\* keeps its value and every other key is one of the seven and unset,
\* together with the search text built from it; given a record that already
\* holds the seven keys (such as its own result) it returns that record.
C8_ModifyNothing ==
    (/\ call.op = "modify"
     /\ call.patch = NoPatch
     /\ ~Undecodable(call.preferences_json)
     /\ json_loads(call.preferences_json).val.t = "dict") =>
        LET given == json_loads(call.preferences_json).val.d
            new == NewRecord
        IN  /\ ret.raised = ""
            /\ \A i \in 1..Len(Params) : HasKey(new, KeyOf(Params[i]))
            /\ \A i \in 1..Len(given) :
                  /\ HasKey(new, given[i].key)
                  /\ DictGet(new, given[i].key) = given[i].val
            /\ \A i \in 1..Len(new) :
                  ~HasKey(given, new[i].key) =>
                     /\ new[i].val = PyNone
                     /\ \E j \in 1..Len(Params) : new[i].key = KeyOf(Params[j])
            /\ Len(new) = Cardinality({new[i].key : i \in 1..Len(new)})
            /\ ret.search_text =
                  search_agents_build_search_text_from_preferences(new)
            /\ (\A i \in 1..Len(Params) : HasKey(given, KeyOf(Params[i])))
                  => new = given

\* C8 happens: modify with no other argument has been applied a second time,
\* to the result it returned for a record that lacked five keys
C8_Witness ==
    /\ call.op = "modify"
    /\ call.patch = NoPatch
    /\ call.preferences_json = json_dumps(search_agents_setdefaults(PartialRecord))
    /\ Len(PartialRecord) < Len(Params)
    /\ ret.preferences_json = call.preferences_json

\* C9: a call that gives a field a value leaves exactly that value in the
\* field, whatever the field held: a purpose list replaces the earlier list and
\* is not joined to it, and likewise for each single-valued field.
C9_Replacement ==
    Returned =>
        LET new == NewRecord
        IN  \A i \in 1..Len(Params) :
                call.patch[Params[i]] # PyNone =>
                    DictGet(new, KeyOf(Params[i])) = call.patch[Params[i]]

\* C9 happens: update has returned for a purpose list given when the record
\* held another purpose list, assigned by an earlier call
C9_Witness ==
    /\ call.op = "update"
    /\ DictGet(before, <<"purpose">>).t = "list"
    /\ call.patch.purpose # PyNone
    /\ call.patch.purpose # DictGet(before, <<"purpose">>)
    /\ DictGet(_laptop_preferences, <<"purpose">>) = call.patch.purpose

\* C10: a field for which a call gives no value (None) holds after the call
\* what it held before it, so only the fields given a value change.
C10_Frame ==
    Returned =>
        LET old == OldRecord
            new == NewRecord
        IN  /\ \A i \in 1..Len(Params) :
                  call.patch[Params[i]] = PyNone =>
                     DictGet(new, KeyOf(Params[i])) = DictGet(old, KeyOf(Params[i]))
            /\ \A i \in 1..Len(old) :
                  (\A j \in 1..Len(Params) : old[i].key # KeyOf(Params[j])) =>
                     DictGet(new, old[i].key) = old[i].val

\* C10 happens: a call has returned that gave one field a new value and gave
\* none for another field that held a value
C10_Witness ==
    /\ Returned
    /\ \E i, j \in 1..Len(Params) :
          /\ call.patch[Params[i]] = PyNone
          /\ DictGet(OldRecord, KeyOf(Params[i])) # PyNone
          /\ call.patch[Params[j]] # PyNone
          /\ DictGet(OldRecord, KeyOf(Params[j])) # PyNone
          /\ DictGet(OldRecord, KeyOf(Params[j])) # call.patch[Params[j]]

\* C11: every field of the process-wide record, and of every record a call
\* returns, is in exactly one of the three states unset, unspecified or set.
C11_ThreeStates ==
    LET three(record) ==
            \A i \in 1..Len(Params) :
                StateOf(DictGet(record, KeyOf(Params[i])))
                    \in {"unset", "unspecified", "set"}
    IN  /\ three(_laptop_preferences)
        /\ Returned => three(NewRecord)

\* C12: modify given the encoding of the process-wide record and a patch
\* returns the preferences_json and the search_text that update returns for
\* that record and that patch, and the two copies of
\* _build_search_text_from_preferences give the same text for the record.
C12_VariantsAgree ==
    /\ (call.op = "modify" /\ call.preferences_json = json_dumps(before)) =>
          LET updated == agent_apply_updates(before, call.patch)
          IN  /\ ret.raised = ""
              /\ ret.preferences_json = json_dumps(updated)
              /\ ret.search_text = agent_build_search_text_from_preferences(updated)
    /\ call.op = "update" =>
          LET modified == search_agents_result(json_dumps(before), call.patch)
          IN  /\ modified.raised = ""
              /\ modified.preferences_json = ret.preferences_json
              /\ modified.search_text = ret.search_text
    /\ agent_build_search_text_from_preferences(_laptop_preferences)
          = search_agents_build_search_text_from_preferences(_laptop_preferences)

\* C12 happens: modify has returned for the encoding of a process-wide record
\* that holds a purpose list with a sentinel entry, with another field given
C12_Witness ==
    /\ call.op = "modify"
    /\ call.preferences_json = json_dumps(before)
    /\ call.patch # NoPatch
    /\ call.patch.purpose = PyNone
    /\ LET purpose == DictGet(before, <<"purpose">>)
       IN  /\ StateOf(purpose) = "set"
           /\ \E i \in 1..Len(purpose.l) : StateOf(purpose.l[i]) = "unspecified"
    /\ ret.raised = ""

\* C13: a call of modify_laptop_requirements leaves the process-wide record
\* as it is at every one of its steps, and however the steps of the calls of
\* several conversations interleave, what a finished call of modify returns
\* (or raises) is what modify returns for that call's own preferences_json
\* and arguments.
C13_ModifyStateless ==
    /\ [](\A c \in Conversations :
             (frames[c].op = "modify" /\ frames[c].pc = "done") =>
                frames[c].ret = search_agents_result(frames[c].preferences_json,
                                                     frames[c].patch))
    /\ [][(\E c \in Conversations :
              frames'[c] # frames[c] /\ frames'[c].op = "modify")
             => _laptop_preferences' = _laptop_preferences]_vars

\* C13 happens: a call of modify given no text has finished in one
\* conversation while a call of update, which changed the process-wide record
\* after the call of modify began, is still running in another
C13_Witness ==
    \E c, d \in Conversations :
        /\ frames[c].op = "modify"
        /\ frames[c].pc = "done"
        /\ frames[c].preferences_json = <<>>
        /\ frames[c].ret.raised = ""
        /\ frames[c].seen # _laptop_preferences
        /\ frames[d].op = "update"
        /\ frames[d].pc = "dumps"

\* the letters of the sentinel, in capitals
SentinelCapitals == <<"U", "N", "S", "P", "E", "C", "I", "F", "I", "E", "D">>

\* the text is the sentinel, each letter in either case, with nothing but
\* whitespace before and after it
IsSentinelText(s) ==
    \E first \in 1..Len(s) :
        LET last == first + Len(UNSPECIFIED) - 1
        IN  /\ last <= Len(s)
            /\ \A k \in 1..(first - 1) : s[k] \in {" ", "\t", "\n"}
            /\ \A k \in (last + 1)..Len(s) : s[k] \in {" ", "\t", "\n"}
            /\ \A k \in 1..Len(UNSPECIFIED) :
                  s[first + k - 1] \in {UNSPECIFIED[k], SentinelCapitals[k]}

\* C14: _is_unspecified, in either copy, is true of a text exactly when the
\* text trimmed and lower-cased is "unspecified" (so it gives the same
\* answer for the text and for the text trimmed and lower-cased), true of a
\* list exactly when the list is not empty and every entry is such a text,
\* and false of None and of every other value.
C14_IsUnspecified ==
    call.op = "_is_unspecified" =>
        LET value == call.value
            expected ==
                CASE value.t = "str" -> IsSentinelText(value.s)
                  [] value.t = "list" ->
                        /\ value.l # <<>>
                        /\ \A i \in 1..Len(value.l) :
                              /\ value.l[i].t = "str"
                              /\ IsSentinelText(value.l[i].s)
                  [] OTHER -> FALSE
        IN  /\ ret.agent = expected
            /\ ret.search_agents = expected
            /\ value.t = "str" =>
                  /\ agent_is_unspecified(PyStr(Lower(Strip(value.s)))) = ret.agent
                  /\ search_agents_is_unspecified(PyStr(Lower(Strip(value.s))))
                        = ret.search_agents

\* C14 happens: _is_unspecified has answered True for a list of two spellings
\* of the sentinel, one of them padded
C14_Witness ==
    /\ call.op = "_is_unspecified"
    /\ call.value.t = "list"
    /\ Len(call.value.l) = 2
    /\ call.value.l[1] # call.value.l[2]
    /\ call.value.l[2].s # Strip(call.value.l[2].s)
    /\ ret.agent
    /\ ret.search_agents

\* C15: for a purpose list, _build_search_text_from_preferences, in either
\* copy, gives one fragment "<trimmed entry> laptop" for each concrete entry,
\* in list order, and none for a sentinel entry, a blank entry or an entry
\* that is no text; with no fragment from purpose or from another field the
\* text is "laptop recommendations".
C15_MixedPurpose ==
    call.op = "_build_search_text_from_preferences" =>
        LET purpose == DictGet(call.prefs, <<"purpose">>)
            concrete(entry) ==
                /\ entry.t = "str"
                /\ \E k \in 1..Len(entry.s) : entry.s[k] \notin {" ", "\t", "\n"}
                /\ ~IsSentinelText(entry.s)
            kept == SelectSeq(purpose.l, concrete)
            fragments ==
                [i \in 1..Len(kept) |-> Strip(kept[i].s) \o <<" laptop">>]
                \o FragmentsFrom(call.prefs, 2)
            expected ==
                IF fragments = <<>>
                THEN <<"laptop recommendations">>
                ELSE Join(<<" ">>, fragments) \o <<" best laptop recommendations">>
        IN  /\ ret.agent = expected
            /\ ret.search_agents = expected

\* C15 happens: the text has been built for a purpose list of a padded
\* concrete entry, a sentinel entry and a blank entry
C15_Witness ==
    /\ call.op = "_build_search_text_from_preferences"
    /\ LET purpose == DictGet(call.prefs, <<"purpose">>)
       IN  /\ Len(purpose.l) = 3
           /\ \E i, j, k \in 1..3 :
                 /\ StateOf(purpose.l[i]) = "set"
                 /\ purpose.l[i].s # Strip(purpose.l[i].s)
                 /\ StateOf(purpose.l[j]) = "unspecified"
                 /\ StateOf(purpose.l[k]) = "blank"
    /\ DictGet(call.prefs, <<"ram">>) = PyNone
    /\ ret.agent = <<"g", "a", "m", "i", "n", "g", " laptop", " best laptop recommendations">>

====
